---- MODULE Spec2Model ----
(***************************************************************************)
(* DayWise: the spaced-repetition scheduler (SpacedRepetitionProvider, its *)
(* interval function and its localStorage effects), the task timer         *)
(* controls (TaskList) and the profile page's task analytics (ProfilePage).*)
(*                                                                         *)
(* A 'yyyy-MM-dd' string is modelled as the tuple <<yyyy, MM, dd>> of its  *)
(* three zero-padded fields: comparing two such strings character by       *)
(* character is comparing the tuples field by field.  A Date (the value    *)
(* parseISO returns and format consumes) is a day number counted from      *)
(* January 1st of EpochYear.                                               *)
(***************************************************************************)
EXTENDS Integers, Sequences, FiniteSets, TLC

VARIABLES
    tasks,        \* SpacedRepetitionProvider: useState<SpacedRepetitionTask[]>
    nextId,       \* number of ids handed out by addTask so far
    clock,        \* new Date(): the current day, as a day number
    toast,        \* title of the toast the last operation raised, or NoToast
    ops,          \* operations performed so far in the run
    lastOp,       \* the last operation called and its arguments
    dailyTasks,   \* the Task collection TaskList renders (prop tasks)
    error,        \* error kind the last Task operation failed with, or NoError
    due,          \* the last getTasksForDate call: its date and its result
    stored,       \* localStorage under SR_TASKS_STORAGE_KEY
    isInitialized, \* SpacedRepetitionProvider: useState(false)
    tasksShape,   \* "array", or "nonArray" when the tasks state holds no array
    thrown,       \* the error an updater or a render threw, or NoError
    storedDaily,  \* localStorage under 'daywiseTasks'
    profileDailyTasks, \* ProfilePage: useState<Task[]> dailyTasks
    formValues,   \* TaskForm: what the fields hold
    formErrors,   \* TaskForm: the fields the resolver reported an error for
    submitted,    \* TaskForm: the data of the last onSubmit call, or NoSubmit
    queue,        \* setTasks / setIsInitialized calls not yet rendered
    effectsToRun, \* effects of the last commit that have not run yet
    calcIn,       \* arguments of the last calculateNextInterval evaluation
    calcOut       \* its result <<r>>, or <<>> before the evaluation

\* the provider's state and storage
srState == <<tasks, due, stored, isInitialized, tasksShape, thrown>>

\* the Task store, its storage and the profile page's copy
taskState == <<dailyTasks, error, storedDaily, profileDailyTasks>>

calcVars == <<calcIn, calcOut>>

\* TaskForm: the field values, the fields in error, the last onSubmit call
formState == <<formValues, formErrors, submitted>>

\* the provider's pending state updates and the effects still to run
startState == <<queue, effectsToRun>>

vars == <<ops, nextId, clock, toast, lastOp, srState, taskState, calcVars, formState, startState>>

(***************************************************************************)
(* Bounds of the model.                                                    *)
(***************************************************************************)
MaxOps == 5                \* operations in a run
MaxCurrentInterval == 200  \* largest currentInterval given to the function
MaxTimesReviewedArg == 3   \* largest timesReviewed given to the function
MaxReviews == 10           \* reviews of one item in a run of easy reviews

(***************************************************************************)
(* Calendar: date-fns parseISO / addDays / format('yyyy-MM-dd').           *)
(***************************************************************************)
EpochYear == 2024
StartDay == 364          \* 2024-12-30: runs cross a month and a year end

IsLeapYear(y) == (y % 4 = 0 /\ y % 100 # 0) \/ y % 400 = 0

DaysInYear(y) == IF IsLeapYear(y) THEN 366 ELSE 365

DaysInMonth(y, m) ==
    IF m = 2 THEN (IF IsLeapYear(y) THEN 29 ELSE 28)
    ELSE IF m \in {4, 6, 9, 11} THEN 30 ELSE 31

\* the recursions are functions: their arguments are values at every level
DaysBeforeYear[y \in Nat] ==
    IF y <= EpochYear THEN 0 ELSE DaysBeforeYear[y - 1] + DaysInYear(y - 1)

DaysBeforeMonth[y \in Nat, m \in Nat] ==
    IF m <= 1 THEN 0 ELSE DaysBeforeMonth[y, m - 1] + DaysInMonth(y, m - 1)

\* parseISO('yyyy-MM-dd'): the Date of a date string
parseISO(s) == DaysBeforeYear[s[1]] + DaysBeforeMonth[s[1], s[2]] + (s[3] - 1)

FormatFromYear[n \in Nat, y \in Nat] ==
    IF n >= DaysInYear(y) THEN FormatFromYear[n - DaysInYear(y), y + 1]
    ELSE <<y, n>>

FormatFromMonth[n \in Nat, y \in Nat, m \in Nat] ==
    IF n >= DaysInMonth(y, m) THEN FormatFromMonth[n - DaysInMonth(y, m), y, m + 1]
    ELSE <<y, m, n + 1>>

\* format(date, 'yyyy-MM-dd'): the date string of a Date
format(date) ==
    LET yn == FormatFromYear[date, EpochYear]
    IN  FormatFromMonth[yn[2], yn[1], 1]

addDays(date, amount) == date + amount

\* a.localeCompare(b) on two 'yyyy-MM-dd' strings: negative, zero or positive
localeCompare(a, b) ==
    IF a[1] # b[1] THEN (IF a[1] < b[1] THEN -1 ELSE 1)
    ELSE IF a[2] # b[2] THEN (IF a[2] < b[2] THEN -1 ELSE 1)
    ELSE IF a[3] # b[3] THEN (IF a[3] < b[3] THEN -1 ELSE 1)
    ELSE 0

getNextReviewDate_inclusive(lastReviewedDate, intervalDays) ==
    format(addDays(parseISO(lastReviewedDate), intervalDays - 1))

getNextReviewDate(lastReviewedDate, intervalDays) ==
    format(addDays(parseISO(lastReviewedDate), intervalDays))

(***************************************************************************)
(* calculateNextInterval.  The factors 2.0, 1.5 and 0.8 are the rationals  *)
(* 2/1, 3/2 and 4/5; Math.round(num/den) rounds to the nearest integer,    *)
(* a tie going up.                                                         *)
(***************************************************************************)
Difficulties == {"easy", "medium", "hard"}
MaxInterval == 180

Max(a, b) == IF a >= b THEN a ELSE b
Min(a, b) == IF a <= b THEN a ELSE b

MathRound_floor(num, den) == num \div den

\* Math.round(num / den) for num >= 0, den > 0
MathRound(num, den) == (2 * num + den) \div (2 * den)

calculateNextInterval_nocap(currentInterval, difficulty, timesReviewed) ==
    IF timesReviewed = 0
    THEN (IF difficulty = "easy" THEN 4 ELSE 1)
    ELSE IF difficulty = "easy" THEN Max(1, MathRound(currentInterval * 2, 1))
    ELSE IF difficulty = "medium" THEN Max(1, MathRound(currentInterval * 3, 2))
    ELSE Max(1, MathRound(currentInterval * 4, 5))

calculateNextInterval_hardKeeps(currentInterval, difficulty, timesReviewed) ==
    LET newInterval ==
            IF timesReviewed = 0
            THEN (IF difficulty = "easy" THEN 4 ELSE 1)
            ELSE IF difficulty = "easy" THEN Max(1, MathRound(currentInterval * 2, 1))
            ELSE IF difficulty = "medium" THEN Max(1, MathRound(currentInterval * 3, 2))
            ELSE Max(1, MathRound(currentInterval * 5, 5))
    IN  Min(newInterval, MaxInterval)

calculateNextInterval(currentInterval, difficulty, timesReviewed) ==
    LET newInterval ==
            IF timesReviewed = 0
            THEN (IF difficulty = "easy" THEN 4
                  ELSE IF difficulty = "medium" THEN 1
                  ELSE 1)
            ELSE IF difficulty = "easy"
                 THEN Max(1, MathRound(currentInterval * 2, 1))
            ELSE IF difficulty = "medium"
                 THEN Max(1, MathRound(currentInterval * 3, 2))
            ELSE Max(1, MathRound(currentInterval * 4, 5))
    IN  Min(newInterval, MaxInterval)

(***************************************************************************)
(* SpacedRepetitionProvider: the collection and its four mutations.        *)
(***************************************************************************)
NoDate == <<0, 0, 0>>        \* lastReviewedDate undefined
NoDifficulty == "none"       \* difficulty undefined
NoToast == "none"
NoError == "none"
NoOp == [op |-> "none", id |-> 0, found |-> FALSE, arg |-> "none"]

todayStr == format(clock)

\* the first review dates the form can hand to addTask
FirstReviewDates == {format(StartDay), format(StartDay + 2)}

\* taskData of addTask: Omit<SpacedRepetitionTask, id | nextReviewDate | ...>
AddInputs ==
    {[title |-> "A", content |-> "a", firstReviewDate |-> d] : d \in FirstReviewDates}

\* updates of updateTask: Partial<SpacedRepetitionTask>
UpdateInputs ==
    {[title |-> "B", content |-> "b", nextReviewDate |-> format(StartDay + 1)],
     [intervalDays |-> 0, timesReviewed |-> -1]}

TaskIds == 1 .. (nextId + 1)

\* prev.findIndex(t => t.id === taskId): 0 stands for -1
findIndex(prev, taskId) ==
    IF \E i \in 1 .. Len(prev) : prev[i].id = taskId
    THEN CHOOSE i \in 1 .. Len(prev) :
            /\ prev[i].id = taskId
            /\ \A j \in 1 .. (i - 1) : prev[j].id # taskId
    ELSE 0

\* one step of the stable sort: x goes after every element that is not
\* greater than it
RECURSIVE InsertSorted(_, _)
InsertSorted(sorted, x) ==
    IF sorted = <<>> THEN <<x>>
    ELSE IF localeCompare(x.nextReviewDate, sorted[Len(sorted)].nextReviewDate) >= 0
         THEN Append(sorted, x)
         ELSE Append(InsertSorted(SubSeq(sorted, 1, Len(sorted) - 1), x),
                     sorted[Len(sorted)])

\* arr.sort((a,b) => a.nextReviewDate.localeCompare(b.nextReviewDate)):
\* Array.prototype.sort is stable
RECURSIVE sortByNextReviewDate(_)
sortByNextReviewDate(arr) ==
    IF arr = <<>> THEN <<>>
    ELSE InsertSorted(sortByNextReviewDate(SubSeq(arr, 1, Len(arr) - 1)),
                      arr[Len(arr)])

\* { ...task, ...updates }
Merge(task, updates) ==
    [f \in DOMAIN task |-> IF f \in DOMAIN updates THEN updates[f] ELSE task[f]]

addTaskResult_nosort(prev, taskData, id, now) ==
    Append(prev, [id |-> id,
                  title |-> taskData.title,
                  content |-> taskData.content,
                  firstReviewDate |-> taskData.firstReviewDate,
                  lastReviewedDate |-> NoDate,
                  nextReviewDate |-> taskData.firstReviewDate,
                  difficulty |-> NoDifficulty,
                  intervalDays |-> 1,
                  timesReviewed |-> 0,
                  createdAt |-> now])

addTaskResult(prev, taskData, id, now) ==
    LET newTask == [id |-> id,
                    title |-> taskData.title,
                    content |-> taskData.content,
                    firstReviewDate |-> taskData.firstReviewDate,
                    lastReviewedDate |-> NoDate,
                    nextReviewDate |-> taskData.firstReviewDate,
                    difficulty |-> NoDifficulty,
                    intervalDays |-> 1,
                    timesReviewed |-> 0,
                    createdAt |-> now]
    IN  sortByNextReviewDate(Append(prev, newTask))

updateTaskResult(prev, taskId, updates) ==
    sortByNextReviewDate(
        [i \in 1 .. Len(prev) |->
            IF prev[i].id = taskId THEN Merge(prev[i], updates) ELSE prev[i]])

deleteTaskResult_splice(prev, taskId) ==
    LET i == IF findIndex(prev, taskId) = 0 THEN Len(prev) ELSE findIndex(prev, taskId)
    IN  SubSeq(prev, 1, i - 1) \o SubSeq(prev, i + 1, Len(prev))

deleteTaskResult(prev, taskId) ==
    SelectSeq(prev, LAMBDA task : task.id # taskId)

updatedTask_oldcount(task, difficulty, today) ==
    LET newTimesReviewed == task.timesReviewed + 1
        newIntervalDays ==
            calculateNextInterval(task.intervalDays, difficulty, task.timesReviewed)
        newNextReviewDate == getNextReviewDate(today, newIntervalDays)
    IN  [task EXCEPT !.lastReviewedDate = today,
                     !.nextReviewDate = newNextReviewDate,
                     !.difficulty = difficulty,
                     !.intervalDays = newIntervalDays,
                     !.timesReviewed = newTimesReviewed]

\* the task markAsReviewed writes at taskIndex
updatedTask(task, difficulty, today) ==
    LET newTimesReviewed == task.timesReviewed + 1
        newIntervalDays ==
            calculateNextInterval(task.intervalDays, difficulty, newTimesReviewed)
        newNextReviewDate == getNextReviewDate(today, newIntervalDays)
    IN  [task EXCEPT !.lastReviewedDate = today,
                     !.nextReviewDate = newNextReviewDate,
                     !.difficulty = difficulty,
                     !.intervalDays = newIntervalDays,
                     !.timesReviewed = newTimesReviewed]

markAsReviewedResult_nosort(prev, taskId, difficulty, today) ==
    LET taskIndex == findIndex(prev, taskId)
    IN  IF taskIndex = 0 THEN prev
        ELSE [prev EXCEPT ![taskIndex] = updatedTask(prev[taskIndex], difficulty, today)]

markAsReviewedResult_always(prev, taskId, difficulty, today) ==
    LET taskIndex == IF findIndex(prev, taskId) = 0 THEN Len(prev)
                     ELSE findIndex(prev, taskId)
    IN  IF taskIndex = 0 THEN prev
        ELSE sortByNextReviewDate(
                [prev EXCEPT ![taskIndex] =
                    updatedTask(prev[taskIndex], difficulty, today)])

markAsReviewedResult_stops(prev, taskId, difficulty, today) ==
    LET taskIndex == findIndex(prev, taskId)
    IN  IF taskIndex = 0 \/ prev[taskIndex].intervalDays = MaxInterval THEN prev
        ELSE sortByNextReviewDate(
                [prev EXCEPT ![taskIndex] =
                    updatedTask(prev[taskIndex], difficulty, today)])

\* the updater markAsReviewed hands to setTasks
markAsReviewedResult(prev, taskId, difficulty, today) ==
    LET taskIndex == findIndex(prev, taskId)
    IN  IF taskIndex = 0 THEN prev
        ELSE sortByNextReviewDate(
                [prev EXCEPT ![taskIndex] =
                    updatedTask(prev[taskIndex], difficulty, today)])

HasId(prev, taskId) == findIndex(prev, taskId) # 0

\* the element of a collection with a given id (ids are unique)
ItemOf(prev, taskId) == prev[findIndex(prev, taskId)]

(***************************************************************************)
(* localStorage and JSON.  A stored value is absent (getItem gives null),  *)
(* the empty string, a text JSON.parse throws on, a text that parses to    *)
(* something that is no array, or the text of an array.  JSON.stringify    *)
(* leaves out the properties whose value is undefined; reading a missing   *)
(* property of a parsed object gives undefined.                            *)
(***************************************************************************)
Undefined(f) == IF f = "lastReviewedDate" THEN NoDate ELSE NoDifficulty

OptionalFields == {"lastReviewedDate", "difficulty"}

StringifyItem(item) ==
    [f \in {g \in DOMAIN item : ~(g \in OptionalFields /\ item[g] = Undefined(g))}
        |-> item[f]]

ParseItem(obj) ==
    [f \in DOMAIN obj \cup OptionalFields |->
        IF f \in DOMAIN obj THEN obj[f] ELSE Undefined(f)]

\* JSON.stringify(tasks)
JSONstringify(shape, arr) ==
    IF shape = "array"
    THEN [kind |-> "array", items |-> [i \in 1 .. Len(arr) |-> StringifyItem(arr[i])]]
    ELSE [kind |-> "nonArray", items |-> <<>>]

\* JSON.parse(storedTasks) of a text that parses: the value's shape and items
JSONparse(text) ==
    IF text.kind = "array"
    THEN [shape |-> "array",
          items |-> [i \in 1 .. Len(text.items) |-> ParseItem(text.items[i])]]
    ELSE [shape |-> "nonArray", items |-> <<>>]

Absent == [kind |-> "absent", items |-> <<>>]

persistEffect_unguarded(initialized, old, shape, arr) == JSONstringify(shape, arr)

persistEffect_skipEmpty(initialized, old, shape, arr) ==
    IF initialized /\ (shape = "array" => Len(arr) > 0)
    THEN JSONstringify(shape, arr) ELSE old

\* the effect on [tasks, isInitialized]: what localStorage holds after it
persistEffect(initialized, old, shape, arr) ==
    IF initialized THEN JSONstringify(shape, arr) ELSE old

NoQuery == [date |-> 0, items |-> <<>>]

\* setTasks(updater) of a mutation, the render that applies it and the
\* persist effect after it.  On a tasks state that holds no array the
\* updater throws (prev is not iterable, prev.map is not a function).
SetTasks(newTasks) ==
    /\ thrown = NoError
    /\ IF tasksShape = "array"
       THEN /\ tasks' = newTasks
            /\ thrown' = NoError
            /\ stored' = persistEffect(isInitialized, stored, tasksShape, newTasks)
       ELSE /\ tasks' = tasks
            /\ thrown' = "TypeError"
            /\ stored' = stored
    /\ due' = NoQuery
    /\ UNCHANGED <<isInitialized, tasksShape>>

AddTask(taskData) ==
    /\ ops < MaxOps /\ ops' = ops + 1
    /\ SetTasks(addTaskResult(tasks, taskData, nextId + 1, clock))
    /\ nextId' = nextId + 1
    /\ toast' = "Review Item Added"
    /\ lastOp' = [op |-> "addTask", id |-> nextId + 1, found |-> FALSE, arg |-> "none"]
    /\ UNCHANGED <<clock, taskState, calcVars, formState, startState>>

UpdateTask(taskId, updates) ==
    /\ ops < MaxOps /\ ops' = ops + 1
    /\ SetTasks(updateTaskResult(tasks, taskId, updates))
    /\ toast' = "Review Item Updated"
    /\ lastOp' = [op |-> "updateTask", id |-> taskId,
                  found |-> HasId(tasks, taskId), arg |-> "none"]
    /\ UNCHANGED <<nextId, clock, taskState, calcVars, formState, startState>>

DeleteTask(taskId) ==
    /\ ops < MaxOps /\ ops' = ops + 1
    /\ SetTasks(deleteTaskResult(tasks, taskId))
    /\ toast' = "Review Item Deleted"
    /\ lastOp' = [op |-> "deleteTask", id |-> taskId,
                  found |-> HasId(tasks, taskId), arg |-> "none"]
    /\ UNCHANGED <<nextId, clock, taskState, calcVars, formState, startState>>

MarkAsReviewed(taskId, difficulty) ==
    /\ ops < MaxOps /\ ops' = ops + 1
    /\ SetTasks(markAsReviewedResult(tasks, taskId, difficulty, todayStr))
    /\ toast' = IF tasksShape = "array" /\ HasId(tasks, taskId)
                THEN "Item Reviewed!" ELSE NoToast
    /\ lastOp' = [op |-> "markAsReviewed", id |-> taskId,
                  found |-> HasId(tasks, taskId), arg |-> difficulty]
    /\ UNCHANGED <<nextId, clock, taskState, calcVars, formState, startState>>

\* midnight passes: new Date() is a day later
AdvanceDay ==
    /\ ops < MaxOps /\ ops' = ops + 1
    /\ clock' = clock + 1
    /\ toast' = NoToast
    /\ lastOp' = NoOp
    /\ UNCHANGED <<nextId, srState, taskState, calcVars, formState, startState>>

\* scheduledDate: undefined
NoDay == <<>>

\* useForm defaultValues; a description is modelled by its length
defaultValues == [description |-> 0, estimatedTime |-> "30", scheduledDate |-> NoDay]

NoSubmit == [description |-> 0, estimatedTime |-> <<>>, scheduledDate |-> NoDate]

NoCalc == [currentInterval |-> 0, difficulty |-> "none", timesReviewed |-> 0]

Init ==
    /\ tasks = <<>>
    /\ ops = 0
    /\ nextId = 0
    /\ clock = StartDay
    /\ toast = NoToast
    /\ lastOp = NoOp
    /\ dailyTasks = <<>>
    /\ error = NoError
    /\ due = NoQuery
    /\ stored = JSONstringify("array", <<>>)
    /\ isInitialized = TRUE
    /\ tasksShape = "array"
    /\ thrown = NoError
    /\ storedDaily = <<>>
    /\ profileDailyTasks = <<>>
    /\ formValues = defaultValues
    /\ formErrors = {}
    /\ submitted = NoSubmit
    /\ queue = <<>>
    /\ effectsToRun = {}
    /\ calcIn = NoCalc
    /\ calcOut = <<>>

\* dates getTasksForDate is asked about
QueryDates == {StartDay, StartDay + 2}

getTasksForDate_overdue(arr, date) ==
    SelectSeq(arr, LAMBDA task : localeCompare(task.nextReviewDate, format(date)) <= 0)

\* getTasksForDate: the items whose nextReviewDate is the formatted date
getTasksForDate(arr, date) ==
    SelectSeq(arr, LAMBDA task : task.nextReviewDate = format(date))

\* a consumer calls getTasksForDate(date); on a tasks state that holds no
\* array tasks.filter is not a function
GetTasksForDate(date) ==
    /\ ops < MaxOps /\ ops' = ops + 1
    /\ thrown = NoError
    /\ IF tasksShape = "array"
       THEN /\ due' = [date |-> date, items |-> getTasksForDate(tasks, date)]
            /\ thrown' = NoError
       ELSE /\ due' = NoQuery
            /\ thrown' = "TypeError"
    /\ toast' = NoToast
    /\ lastOp' = [op |-> "getTasksForDate", id |-> 0, found |-> FALSE, arg |-> "none"]
    /\ UNCHANGED <<tasks, stored, isInitialized, tasksShape>>
    /\ UNCHANGED <<nextId, clock, taskState, calcVars, formState, startState>>

Next ==
    \/ \E date \in QueryDates : GetTasksForDate(date)
    \/ \E taskData \in AddInputs : AddTask(taskData)
    \/ \E taskId \in TaskIds, updates \in UpdateInputs : UpdateTask(taskId, updates)
    \/ \E taskId \in TaskIds : DeleteTask(taskId)
    \/ \E taskId \in TaskIds, difficulty \in Difficulties :
            MarkAsReviewed(taskId, difficulty)
    \/ AdvanceDay

\* the scheduler: any sequence of its operations from the empty collection
Spec == Init /\ [][Next]_vars

(***************************************************************************)
(* Start-up.  The provider mounts with tasks = [] and isInitialized =       *)
(* false; its first effect reads localStorage, its second effect writes    *)
(* the tasks state back once isInitialized is true.  React runs both       *)
(* effects, and the render they cause, before it handles any user event,   *)
(* so no operation reaches the provider before hydration has finished.     *)
(***************************************************************************)
EmptyText == [kind |-> "empty", items |-> <<>>]

Unparseable == [kind |-> "unparseable", items |-> <<>>]

\* a text JSON.parse accepts and that is no array: {}, null, 42
NonArray == [kind |-> "nonArray", items |-> <<>>]

\* what localStorage can hold under the key when the provider mounts
StoredValues ==
    {Absent, EmptyText, Unparseable, NonArray, JSONstringify("array", <<>>)}
        \cup {JSONstringify("array", addTaskResult(<<>>, taskData, 1, StartDay)) :
                 taskData \in AddInputs}

\* the hydration effect: the tasks state and the stored value it leaves
hydrationEffect(prev, text) ==
    IF text.kind \in {"absent", "empty"}
    THEN [shape |-> "array", items |-> prev, stored |-> text]
    ELSE IF text.kind = "unparseable"
    THEN [shape |-> "array", items |-> prev, stored |-> Absent]
    ELSE [shape |-> JSONparse(text).shape, items |-> JSONparse(text).items,
          stored |-> text]

\* the provider's two effects after mount, and the render they cause
Hydrate ==
    /\ ops < MaxOps /\ ops' = ops + 1
    /\ ~isInitialized
    /\ LET h == hydrationEffect(tasks, stored)
       IN  /\ tasks' = h.items
           /\ tasksShape' = h.shape
           /\ stored' = persistEffect(TRUE, h.stored, h.shape, h.items)
    /\ isInitialized' = TRUE
    /\ thrown' = NoError
    /\ due' = NoQuery
    /\ toast' = NoToast
    /\ lastOp' = [op |-> "hydrate", id |-> 0, found |-> FALSE, arg |-> stored.kind]
    /\ UNCHANGED <<nextId, clock, taskState, calcVars, formState, startState>>

\* the page is closed and opened again: the provider's state is gone,
\* localStorage stays
Restart ==
    /\ ops < MaxOps /\ ops' = ops + 1
    /\ isInitialized
    /\ tasks' = <<>>
    /\ tasksShape' = "array"
    /\ isInitialized' = FALSE
    /\ thrown' = NoError
    /\ due' = NoQuery
    /\ toast' = NoToast
    /\ lastOp' = [op |-> "restart", id |-> 0, found |-> FALSE, arg |-> "none"]
    /\ UNCHANGED <<stored, nextId, clock, taskState, calcVars, formState, startState>>

InitPersist ==
    /\ tasks = <<>>
    /\ ops = 0
    /\ nextId = 1
    /\ clock = StartDay
    /\ toast = NoToast
    /\ lastOp = NoOp
    /\ dailyTasks = <<>>
    /\ error = NoError
    /\ due = NoQuery
    /\ stored \in StoredValues
    /\ isInitialized = FALSE
    /\ tasksShape = "array"
    /\ thrown = NoError
    /\ storedDaily = <<>>
    /\ profileDailyTasks = <<>>
    /\ formValues = defaultValues
    /\ formErrors = {}
    /\ submitted = NoSubmit
    /\ queue = <<>>
    /\ effectsToRun = {}
    /\ calcIn = NoCalc
    /\ calcOut = <<>>

NextPersist ==
    \/ Hydrate
    \/ Restart
    \/ isInitialized /\ Next

\* the scheduler from start-up on, over every stored value it can find
SpecPersist == InitPersist /\ [][NextPersist]_vars

(***************************************************************************)
(* Start-up step by step.  After the first commit both effects are         *)
(* pending; an effect reads the state of the commit it belongs to, a       *)
(* setState call is queued, and the next render, which starts only when    *)
(* the pending effects have run, applies the queue in order.               *)
(***************************************************************************)
SetTasksCall(value) == [kind |-> "setTasks", value |-> value]

AddCall(item) == [kind |-> "add", value |-> item]

SetInitializedCall == [kind |-> "setIsInitialized", value |-> TRUE]

\* the state after one queued call is applied to it
ApplyCall(state, call) ==
    IF state.thrown # NoError THEN state
    ELSE IF call.kind = "setIsInitialized" THEN [state EXCEPT !.initialized = TRUE]
    ELSE IF call.kind = "setTasks"
    THEN [state EXCEPT !.shape = call.value.shape, !.items = call.value.items]
    ELSE IF state.shape = "array"
    THEN [state EXCEPT !.items = sortByNextReviewDate(Append(state.items, call.value))]
    ELSE [state EXCEPT !.thrown = "TypeError"]

RECURSIVE ApplyQueue(_, _)
ApplyQueue(state, calls) ==
    IF calls = <<>> THEN state
    ELSE ApplyQueue(ApplyCall(state, Head(calls)), Tail(calls))

\* the hydration effect runs: useEffect(..., [])
HydrationEffect ==
    /\ ops < MaxOps /\ ops' = ops + 1
    /\ "hydrate" \in effectsToRun
    /\ effectsToRun' = effectsToRun \ {"hydrate"}
    /\ stored' = IF stored.kind = "unparseable" THEN Absent ELSE stored
    /\ queue' = (IF stored.kind \in {"array", "nonArray"}
                 THEN Append(queue, SetTasksCall(JSONparse(stored))) ELSE queue)
                \o <<SetInitializedCall>>
    /\ lastOp' = [op |-> "hydrationEffect", id |-> 0, found |-> FALSE, arg |-> stored.kind]
    /\ UNCHANGED <<tasks, due, isInitialized, tasksShape, thrown>>
    /\ UNCHANGED <<nextId, clock, toast, taskState, calcVars, formState>>

\* the persist effect runs: useEffect(..., [tasks, isInitialized])
PersistEffect ==
    /\ ops < MaxOps /\ ops' = ops + 1
    /\ "persist" \in effectsToRun
    /\ effectsToRun' = effectsToRun \ {"persist"}
    /\ stored' = persistEffect(isInitialized, stored, tasksShape, tasks)
    /\ lastOp' = [op |-> "persistEffect", id |-> 0, found |-> isInitialized, arg |-> "none"]
    /\ UNCHANGED <<tasks, due, isInitialized, tasksShape, thrown, queue>>
    /\ UNCHANGED <<nextId, clock, toast, taskState, calcVars, formState>>

\* the queued calls are applied and the result is committed; the persist
\* effect is pending again when tasks or isInitialized changed
Render ==
    /\ ops < MaxOps /\ ops' = ops + 1
    /\ effectsToRun = {}
    /\ queue # <<>>
    /\ thrown = NoError
    /\ LET state == ApplyQueue([shape |-> tasksShape, items |-> tasks,
                                initialized |-> isInitialized, thrown |-> NoError],
                               queue)
       IN  /\ tasks' = state.items
           /\ tasksShape' = state.shape
           /\ isInitialized' = state.initialized
           /\ thrown' = state.thrown
           /\ effectsToRun' =
                 IF state.thrown = NoError
                    /\ <<state.items, state.shape, state.initialized>>
                         # <<tasks, tasksShape, isInitialized>>
                 THEN {"persist"} ELSE {}
    /\ queue' = <<>>
    /\ lastOp' = [op |-> "render", id |-> 0, found |-> FALSE, arg |-> "none"]
    /\ UNCHANGED <<stored, due>>
    /\ UNCHANGED <<nextId, clock, toast, taskState, calcVars, formState>>

\* addTask is called, at any moment of the start-up or after it: its
\* setTasks(updater) is queued
QueueAddTask(taskData) ==
    /\ ops < MaxOps /\ ops' = ops + 1
    /\ thrown = NoError
    /\ queue' = Append(queue,
                       AddCall(addTaskResult(<<>>, taskData, nextId + 1, clock)[1]))
    /\ nextId' = nextId + 1
    /\ toast' = "Review Item Added"
    /\ lastOp' = [op |-> "queueAddTask", id |-> nextId + 1, found |-> FALSE, arg |-> "none"]
    /\ UNCHANGED <<srState, effectsToRun>>
    /\ UNCHANGED <<clock, taskState, calcVars, formState>>

InitStartup ==
    /\ tasks = <<>>
    /\ ops = 0
    /\ nextId = 1
    /\ clock = StartDay
    /\ toast = NoToast
    /\ lastOp = NoOp
    /\ dailyTasks = <<>>
    /\ error = NoError
    /\ due = NoQuery
    /\ stored \in StoredValues
    /\ isInitialized = FALSE
    /\ tasksShape = "array"
    /\ thrown = NoError
    /\ storedDaily = <<>>
    /\ profileDailyTasks = <<>>
    /\ formValues = defaultValues
    /\ formErrors = {}
    /\ submitted = NoSubmit
    /\ queue = <<>>
    /\ effectsToRun = {"hydrate", "persist"}
    /\ calcIn = NoCalc
    /\ calcOut = <<>>

NextStartup ==
    \/ HydrationEffect
    \/ PersistEffect
    \/ Render
    \/ \E taskData \in AddInputs : QueueAddTask(taskData)

\* the provider's start-up, in every order of its effects and of addTask calls
SpecStartup == InitStartup /\ [][NextStartup]_vars

(***************************************************************************)
(* An item that is only ever rated easy.  The collection starts with one   *)
(* item per first review date; each item is reviewed up to MaxReviews      *)
(* times, on whatever day the run has reached.                             *)
(***************************************************************************)
ReviewedIds == {1, 2}

\* markAsReviewed(taskId, 'easy'); todayStr is computed once per call
ReviewEasy(taskId) ==
    /\ HasId(tasks, taskId)
    /\ ItemOf(tasks, taskId).timesReviewed < MaxReviews
    /\ ops' = ops + 1
    /\ \E now \in {todayStr} :
            \E reviewed \in {markAsReviewedResult(tasks, taskId, "easy", now)} :
                SetTasks(reviewed)
    /\ toast' = "Item Reviewed!"
    /\ lastOp' = [op |-> "markAsReviewed", id |-> taskId, found |-> TRUE, arg |-> "easy"]
    /\ UNCHANGED <<nextId, clock, taskState, calcVars, formState, startState>>

InitReview ==
    /\ tasks = addTaskResult(
                  addTaskResult(<<>>, [title |-> "A", content |-> "a",
                                       firstReviewDate |-> format(StartDay)], 1, StartDay),
                  [title |-> "A", content |-> "a",
                   firstReviewDate |-> format(StartDay + 2)], 2, StartDay)
    /\ ops = 0
    /\ nextId = 2
    /\ clock = StartDay
    /\ toast = NoToast
    /\ lastOp = NoOp
    /\ dailyTasks = <<>>
    /\ error = NoError
    /\ due = NoQuery
    /\ stored = JSONstringify("array", tasks)
    /\ isInitialized = TRUE
    /\ tasksShape = "array"
    /\ thrown = NoError
    /\ storedDaily = <<>>
    /\ profileDailyTasks = <<>>
    /\ formValues = defaultValues
    /\ formErrors = {}
    /\ submitted = NoSubmit
    /\ queue = <<>>
    /\ effectsToRun = {}
    /\ calcIn = NoCalc
    /\ calcOut = <<>>

NextReview ==
    \/ \E taskId \in ReviewedIds : ReviewEasy(taskId)
    \/ AdvanceDay

\* the user keeps reviewing: an item that can be reviewed is reviewed again
SpecReview ==
    /\ InitReview /\ [][NextReview]_vars
    /\ \A taskId \in ReviewedIds : WF_vars(ReviewEasy(taskId))

(***************************************************************************)
(* calculateNextInterval as a pure function: every argument in the bounds  *)
(* is drawn, then the function is applied.                                 *)
(***************************************************************************)
CalcInputs ==
    [currentInterval : 1 .. MaxCurrentInterval,
     difficulty : Difficulties,
     timesReviewed : 0 .. MaxTimesReviewedArg]

InitInterval ==
    /\ tasks = <<>>
    /\ ops = 0
    /\ nextId = 0
    /\ clock = StartDay
    /\ toast = NoToast
    /\ lastOp = NoOp
    /\ dailyTasks = <<>>
    /\ error = NoError
    /\ due = NoQuery
    /\ stored = JSONstringify("array", <<>>)
    /\ isInitialized = TRUE
    /\ tasksShape = "array"
    /\ thrown = NoError
    /\ storedDaily = <<>>
    /\ profileDailyTasks = <<>>
    /\ formValues = defaultValues
    /\ formErrors = {}
    /\ submitted = NoSubmit
    /\ queue = <<>>
    /\ effectsToRun = {}
    /\ calcIn \in CalcInputs
    /\ calcOut = <<>>

Calculate ==
    /\ calcOut = <<>>
    /\ calcOut' = <<calculateNextInterval(calcIn.currentInterval, calcIn.difficulty,
                                          calcIn.timesReviewed)>>
    /\ UNCHANGED <<ops, nextId, clock, toast, lastOp, srState, taskState, calcIn, formState, startState>>

NextInterval == Calculate

SpecInterval == InitInterval /\ [][NextInterval]_vars

(***************************************************************************)
(* The Task store and its timer controller, as TaskList drives them.  The  *)
(* handlers TaskList receives (onToggle, onDelete, onTimerAction,          *)
(* onAddManualTime) are the store's operations; each returns the new       *)
(* collection and the error kind it failed with.                           *)
(***************************************************************************)
\* scheduledDate values a Task is created with: none, yesterday's, a later
ScheduledDates == {NoDate, format(StartDay - 1), format(StartDay + 1)}

\* minutes handed to addManualTime
ManualMinutes == {-5, 0, 15}

DailyTaskIds == 1 .. (nextId + 1)

\* failed: scheduledDate exists, is strictly before the current day, and the
\* task is not completed
Failed(task, now) ==
    /\ task.scheduledDate # NoDate
    /\ parseISO(task.scheduledDate) < now
    /\ ~task.completed

Running(arr) == {i \in 1 .. Len(arr) : arr[i].timerState = "running"}

\* the id of the running task; 0 stands for null
activeTimerTaskId(arr) ==
    IF Running(arr) = {} THEN 0 ELSE arr[CHOOSE i \in Running(arr) : TRUE].id

isAnotherTaskActive(arr, task) ==
    activeTimerTaskId(arr) # 0 /\ activeTimerTaskId(arr) # task.id

\* the timer row TaskList renders for tasks neither completed nor failed
TimerControlsShown(task, now) == ~task.completed /\ ~Failed(task, now)

StartButtonEnabled(arr, task, now) ==
    /\ TimerControlsShown(task, now)
    /\ task.timerState # "running"
    /\ ~isAnotherTaskActive(arr, task)

PauseButtonShown(task, now) ==
    TimerControlsShown(task, now) /\ task.timerState = "running"

ResetButtonEnabled(task, now) ==
    TimerControlsShown(task, now) /\ task.timerState # "running"

Outcome(arr, err) == [tasks |-> arr, error |-> err]

createResult(arr, id, scheduledDate) ==
    Outcome(Append(arr, [id |-> id,
                         scheduledDate |-> scheduledDate,
                         completed |-> FALSE,
                         completedAt |-> 0,
                         actualTimeSpent |-> 0,
                         timerState |-> "idle"]),
            NoError)

startResult_nocheck(arr, id, now) ==
    LET i == findIndex(arr, id)
    IN  IF i = 0 THEN Outcome(arr, "NotFoundError")
        ELSE Outcome([arr EXCEPT ![i].timerState = "running"], NoError)

startResult_switch(arr, id, now) ==
    LET i == findIndex(arr, id)
    IN  IF i = 0 THEN Outcome(arr, "NotFoundError")
        ELSE IF arr[i].completed \/ Failed(arr[i], now) \/ arr[i].timerState = "running"
             THEN Outcome(arr, "InvalidStateError")
        ELSE Outcome([j \in 1 .. Len(arr) |->
                        IF j = i THEN [arr[j] EXCEPT !.timerState = "running"]
                        ELSE IF arr[j].timerState = "running"
                             THEN [arr[j] EXCEPT !.timerState = "paused"]
                        ELSE arr[j]],
                     NoError)

startResult(arr, id, now) ==
    LET i == findIndex(arr, id)
    IN  IF i = 0 THEN Outcome(arr, "NotFoundError")
        ELSE IF \E j \in Running(arr) : j # i THEN Outcome(arr, "ConflictError")
        ELSE IF arr[i].completed \/ Failed(arr[i], now) \/ arr[i].timerState = "running"
             THEN Outcome(arr, "InvalidStateError")
        ELSE Outcome([arr EXCEPT ![i].timerState = "running"], NoError)

pauseResult(arr, id) ==
    LET i == findIndex(arr, id)
    IN  IF i = 0 THEN Outcome(arr, "NotFoundError")
        ELSE IF arr[i].timerState # "running" THEN Outcome(arr, "InvalidStateError")
        ELSE Outcome([arr EXCEPT ![i].timerState = "paused"], NoError)

resetResult_running(arr, id) ==
    LET i == findIndex(arr, id)
    IN  IF i = 0 THEN Outcome(arr, "NotFoundError")
        ELSE Outcome([arr EXCEPT ![i].actualTimeSpent = 0, ![i].timerState = "idle"],
                     NoError)

resetResult(arr, id) ==
    LET i == findIndex(arr, id)
    IN  IF i = 0 THEN Outcome(arr, "NotFoundError")
        ELSE IF arr[i].timerState = "running" THEN Outcome(arr, "InvalidStateError")
        ELSE Outcome([arr EXCEPT ![i].actualTimeSpent = 0, ![i].timerState = "idle"],
                     NoError)

toggleCompletionResult(arr, id, now) ==
    LET i == findIndex(arr, id)
    IN  IF i = 0 THEN Outcome(arr, "NotFoundError")
        ELSE IF ~arr[i].completed
             THEN Outcome([arr EXCEPT ![i].completed = TRUE,
                                      ![i].completedAt = now,
                                      ![i].timerState = "idle"], NoError)
        ELSE Outcome([arr EXCEPT ![i].completed = FALSE, ![i].completedAt = 0],
                     NoError)

deleteResult(arr, id) ==
    Outcome(SelectSeq(arr, LAMBDA task : task.id # id), NoError)

addManualTimeResult_running(arr, id, minutes, now) ==
    LET i == findIndex(arr, id)
    IN  IF i = 0 THEN Outcome(arr, "NotFoundError")
        ELSE IF minutes <= 0 THEN Outcome(arr, "ValidationError")
        ELSE IF arr[i].completed \/ Failed(arr[i], now)
             THEN Outcome(arr, "InvalidStateError")
        ELSE Outcome([arr EXCEPT ![i].actualTimeSpent = @ + minutes * 60], NoError)

addManualTimeResult(arr, id, minutes, now) ==
    LET i == findIndex(arr, id)
    IN  IF i = 0 THEN Outcome(arr, "NotFoundError")
        ELSE IF minutes <= 0 THEN Outcome(arr, "ValidationError")
        ELSE IF arr[i].completed \/ Failed(arr[i], now) \/ arr[i].timerState = "running"
             THEN Outcome(arr, "InvalidStateError")
        ELSE Outcome([arr EXCEPT ![i].actualTimeSpent = @ + minutes * 60], NoError)

\* the snapshot of the Task collection a persist writes: every record with
\* the value its failed field has on the day of the write
Snapshot(arr, now) ==
    [i \in 1 .. Len(arr) |->
        [id |-> arr[i].id, scheduledDate |-> arr[i].scheduledDate,
         completed |-> arr[i].completed, failed |-> Failed(arr[i], now)]]

\* the operation op was called on id and gave the outcome out
TaskOp(op, id, out) ==
    /\ ops < MaxOps /\ ops' = ops + 1
    /\ dailyTasks' = out.tasks
    /\ error' = out.error
    /\ storedDaily' = IF out.error = NoError THEN Snapshot(out.tasks, clock)
                      ELSE storedDaily
    /\ lastOp' = [op |-> op, id |-> id, found |-> HasId(dailyTasks, id), arg |-> "none"]
    /\ UNCHANGED <<toast, clock, srState, profileDailyTasks, calcVars, formState, startState>>

Create(scheduledDate) ==
    /\ TaskOp("create", nextId + 1, createResult(dailyTasks, nextId + 1, scheduledDate))
    /\ nextId' = nextId + 1

Start(id) ==
    TaskOp("start", id, startResult(dailyTasks, id, clock)) /\ UNCHANGED nextId

Pause(id) ==
    TaskOp("pause", id, pauseResult(dailyTasks, id)) /\ UNCHANGED nextId

Reset(id) ==
    TaskOp("reset", id, resetResult(dailyTasks, id)) /\ UNCHANGED nextId

ToggleCompletion(id) ==
    /\ TaskOp("toggleCompletion", id, toggleCompletionResult(dailyTasks, id, clock))
    /\ UNCHANGED nextId

Delete(id) ==
    TaskOp("delete", id, deleteResult(dailyTasks, id)) /\ UNCHANGED nextId

AddManualTime(id, minutes) ==
    /\ TaskOp("addManualTime", id, addManualTimeResult(dailyTasks, id, minutes, clock))
    /\ UNCHANGED nextId

\* a second of wall-clock time accrues to the running task
Tick ==
    /\ ops < MaxOps /\ ops' = ops + 1
    /\ Running(dailyTasks) # {}
    /\ dailyTasks' = [i \in 1 .. Len(dailyTasks) |->
                        IF i \in Running(dailyTasks)
                        THEN [dailyTasks[i] EXCEPT !.actualTimeSpent = @ + 1]
                        ELSE dailyTasks[i]]
    /\ error' = NoError
    /\ storedDaily' = Snapshot(dailyTasks', clock)
    /\ lastOp' = NoOp
    /\ UNCHANGED <<toast, clock, nextId, srState, profileDailyTasks, calcVars, formState, startState>>

\* the Start button of a rendered task is pressed
ClickStart(i) ==
    /\ StartButtonEnabled(dailyTasks, dailyTasks[i], clock)
    /\ Start(dailyTasks[i].id)

\* the Pause button of a rendered task is pressed
ClickPause(i) ==
    /\ PauseButtonShown(dailyTasks[i], clock)
    /\ Pause(dailyTasks[i].id)

\* the Reset button of a rendered task is pressed
ClickReset(i) ==
    /\ ResetButtonEnabled(dailyTasks[i], clock)
    /\ Reset(dailyTasks[i].id)

(***************************************************************************)
(* handleSaveManualTime.  The text of the minutes input is spelled as its  *)
(* characters; parseInt(text, 10) skips leading blanks, reads an optional  *)
(* sign and then the longest run of decimal digits, and gives NaN when     *)
(* there is no digit.                                                      *)
(***************************************************************************)
\* what the minutes input holds: it is of type number, so its value is the
\* empty string or the text of a number
ManualTimeTexts == {"", "-5", "0", "15", "1.5"}

Chars(text) ==
    CASE text = "" -> <<>>
      [] text = "-5" -> <<"-", "5">>
      [] text = "0" -> <<"0">>
      [] text = "15" -> <<"1", "5">>
      [] text = "1.5" -> <<"1", ".", "5">>
      [] text = "1" -> <<"1">>
      [] text = "30" -> <<"3", "0">>
      [] text = "1440" -> <<"1", "4", "4", "0">>
      [] text = "1441" -> <<"1", "4", "4", "1">>

DigitChars == {"0", "1", "2", "3", "4", "5", "6", "7", "8", "9"}

DigitValue(c) ==
    CASE c = "0" -> 0 [] c = "1" -> 1 [] c = "2" -> 2 [] c = "3" -> 3 [] c = "4" -> 4
      [] c = "5" -> 5 [] c = "6" -> 6 [] c = "7" -> 7 [] c = "8" -> 8 [] c = "9" -> 9

RECURSIVE SkipBlanks(_)
SkipBlanks(chars) ==
    IF chars # <<>> /\ Head(chars) = " " THEN SkipBlanks(Tail(chars)) ELSE chars

\* the digits read so far (count n, value acc) and the rest of the text
RECURSIVE ReadDigits(_, _, _)
ReadDigits(chars, n, acc) ==
    IF chars # <<>> /\ Head(chars) \in DigitChars
    THEN ReadDigits(Tail(chars), n + 1, acc * 10 + DigitValue(Head(chars)))
    ELSE [count |-> n, value |-> acc]

NaN == [nan |-> TRUE, value |-> 0]

\* parseInt(manualTimeInputValue, 10)
parseInt(chars) ==
    LET body == SkipBlanks(chars)
        signed == body # <<>> /\ Head(body) \in {"-", "+"}
        digits == ReadDigits(IF signed THEN Tail(body) ELSE body, 0, 0)
    IN  IF digits.count = 0 THEN NaN
        ELSE [nan |-> FALSE,
              value |-> IF signed /\ Head(body) = "-" THEN 0 - digits.value
                        ELSE digits.value]

isNaN(t) == t.nan

invalidMinutes_negative(t) == isNaN(t) \/ t.value < 0

\* isNaN(timeInMinutes) || timeInMinutes <= 0
invalidMinutes(t) == isNaN(t) \/ t.value <= 0

\* Save is pressed next to the minutes input of a rendered task, after Add
\* Manual Time has opened the input and the text has been typed
ClickSaveManualTime(i, text) ==
    LET taskId == dailyTasks[i].id
        timeInMinutes == parseInt(Chars(text))
        out == addManualTimeResult(dailyTasks, taskId, timeInMinutes.value, clock)
    IN  /\ ops < MaxOps /\ ops' = ops + 1
        /\ TimerControlsShown(dailyTasks[i], clock)
        /\ IF invalidMinutes(timeInMinutes)
           THEN /\ toast' = "Invalid Input"
                /\ UNCHANGED <<dailyTasks, storedDaily>>
                /\ error' = NoError
           ELSE /\ toast' = NoToast
                /\ dailyTasks' = out.tasks
                /\ error' = out.error
                /\ storedDaily' = IF out.error = NoError
                                  THEN Snapshot(out.tasks, clock) ELSE storedDaily
        /\ lastOp' = [op |-> "saveManualTime", id |-> taskId, found |-> TRUE, arg |-> text]
        /\ UNCHANGED <<clock, nextId, srState, profileDailyTasks, calcVars, formState, startState>>

(***************************************************************************)
(* ProfilePage: its effect reads the Task snapshot from localStorage into  *)
(* its own dailyTasks state, and analysisData counts over that state.      *)
(***************************************************************************)
\* the profile page is opened: setDailyTasks(JSON.parse(storedTasks))
ProfileLoad ==
    /\ ops < MaxOps /\ ops' = ops + 1
    /\ profileDailyTasks' = storedDaily
    /\ lastOp' = [op |-> "profileLoad", id |-> 0, found |-> FALSE, arg |-> "none"]
    /\ UNCHANGED <<toast, clock, nextId, srState, dailyTasks, error, storedDaily, calcVars, formState, startState>>

\* analysisData.failedTasks
failedTasks(arr) == Cardinality({i \in 1 .. Len(arr) : arr[i].failed})

\* the failed count of one day in analysisData.tasksLast7Days
failedOn(arr, date) ==
    Cardinality({i \in 1 .. Len(arr) : arr[i].failed /\ arr[i].scheduledDate = format(date)})

\* the operations that write the fields the profile page reads
NextProfile ==
    \/ ProfileLoad
    \/ \E scheduledDate \in ScheduledDates : Create(scheduledDate)
    \/ \E id \in DailyTaskIds : ToggleCompletion(id)
    \/ \E id \in DailyTaskIds : Delete(id)
    \/ AdvanceDay

\* the profile page next to the Task store
SpecProfile == Init /\ [][NextProfile]_vars

NextTimer ==
    \/ \E i \in 1 .. Len(dailyTasks), text \in ManualTimeTexts : ClickSaveManualTime(i, text)
    \/ \E scheduledDate \in ScheduledDates : Create(scheduledDate)
    \/ \E id \in DailyTaskIds : Start(id)
    \/ \E id \in DailyTaskIds : Pause(id)
    \/ \E id \in DailyTaskIds : Reset(id)
    \/ \E id \in DailyTaskIds : ToggleCompletion(id)
    \/ \E id \in DailyTaskIds : Delete(id)
    \/ \E id \in DailyTaskIds, minutes \in ManualMinutes : AddManualTime(id, minutes)
    \/ \E i \in 1 .. Len(dailyTasks) : ClickStart(i)
    \/ \E i \in 1 .. Len(dailyTasks) : ClickPause(i)
    \/ \E i \in 1 .. Len(dailyTasks) : ClickReset(i)
    \/ Tick
    \/ AdvanceDay

\* the Task store: any sequence of its operations from the empty collection
SpecTimer == Init /\ [][NextTimer]_vars

(***************************************************************************)
(* TaskForm.  useForm validates the field values with                      *)
(* zodResolver(taskFormSchema) when the form is submitted; handleSubmit    *)
(* runs only when the resolver reports no error.  z.coerce.number()        *)
(* applies Number() to the text of the field: the empty text gives 0, a    *)
(* decimal numeral gives its value, anything else NaN.  A number is kept   *)
(* as the fraction num/den.                                                *)
(***************************************************************************)
\* lengths of the description typed
DescriptionLengths == {2, 3, 200, 201}

\* texts of the estimatedTime field
EstimatedTimeTexts == {"", "0", "1", "1.5", "1440", "1441"}

\* the dates picked in the calendar, or none
PickedDates == {NoDay, <<StartDay + 1>>}

FormInputs ==
    [description : DescriptionLengths, estimatedTime : EstimatedTimeTexts,
     scheduledDate : PickedDates]

RECURSIVE PowerOfTen(_)
PowerOfTen(n) == IF n = 0 THEN 1 ELSE 10 * PowerOfTen(n - 1)

NotANumber == [nan |-> TRUE, num |-> 0, den |-> 1]

\* Number(text)
Number(chars) ==
    LET body == SkipBlanks(chars)
        signed == body # <<>> /\ Head(body) \in {"-", "+"}
        unsigned == IF signed THEN Tail(body) ELSE body
        whole == ReadDigits(unsigned, 0, 0)
        afterWhole == SubSeq(unsigned, whole.count + 1, Len(unsigned))
        dotted == afterWhole # <<>> /\ Head(afterWhole) = "."
        fraction == IF dotted THEN ReadDigits(Tail(afterWhole), 0, 0)
                    ELSE [count |-> 0, value |-> 0]
        rest == IF dotted
                THEN SubSeq(afterWhole, fraction.count + 2, Len(afterWhole))
                ELSE afterWhole
        den == PowerOfTen(fraction.count)
        num == whole.value * den + fraction.value
    IN  IF body = <<>> THEN [nan |-> FALSE, num |-> 0, den |-> 1]
        ELSE IF rest # <<>> \/ whole.count + fraction.count = 0 THEN NotANumber
        ELSE [nan |-> FALSE,
              num |-> IF signed /\ Head(body) = "-" THEN 0 - num ELSE num,
              den |-> den]

\* description: z.string().min(3).max(200)
descriptionValid(length) == length >= 3 /\ length <= 200

\* estimatedTime: z.coerce.number().min(1).max(1440)
estimatedTimeValid(n) ==
    ~n.nan /\ n.num >= 1 * n.den /\ n.num <= 1440 * n.den

\* zodResolver(taskFormSchema): the fields in error
resolverErrors(values) ==
    {f \in {"description"} : ~descriptionValid(values.description)}
        \cup {f \in {"estimatedTime"} :
                 ~estimatedTimeValid(Number(Chars(values.estimatedTime)))}

\* handleSubmit: the data handed to onSubmit
submitData(values) ==
    [description |-> values.description,
     estimatedTime |-> Number(Chars(values.estimatedTime)),
     scheduledDate |-> IF values.scheduledDate # NoDay
                       THEN format(values.scheduledDate[1]) ELSE NoDate]

\* the user fills in the fields
EditForm(values) ==
    /\ ops < MaxOps /\ ops' = ops + 1
    /\ formValues' = values
    /\ lastOp' = NoOp
    /\ UNCHANGED <<formErrors, submitted>>
    /\ UNCHANGED <<nextId, clock, toast, srState, taskState, calcVars, startState>>

\* Add Task is pressed: form.handleSubmit(handleSubmit)
SubmitForm ==
    /\ ops < MaxOps /\ ops' = ops + 1
    /\ formErrors' = resolverErrors(formValues)
    /\ IF resolverErrors(formValues) = {}
       THEN /\ submitted' = submitData(formValues)
            /\ formValues' = defaultValues
       ELSE UNCHANGED <<submitted, formValues>>
    /\ lastOp' = [op |-> "submit", id |-> 0,
                  found |-> resolverErrors(formValues) = {}, arg |-> "none"]
    /\ UNCHANGED <<nextId, clock, toast, srState, taskState, calcVars, startState>>

NextForm ==
    \/ \E values \in FormInputs : EditForm(values)
    \/ SubmitForm

\* the task form: any sequence of edits and submissions
SpecForm == Init /\ [][NextForm]_vars

(***************************************************************************)
(* Properties of the interval function.                                    *)
(***************************************************************************)
Computed == calcOut # <<>>

\* the interval the first review is documented to give
FirstReviewInterval(difficulty) == IF difficulty = "easy" THEN 4 ELSE 1

AbsentId(arr, taskId) == \A i \in 1 .. Len(arr) : arr[i].id # taskId

JustReviewed == lastOp.op = "markAsReviewed" /\ ~AbsentId(tasks, lastOp.id)

\* C3: the first review of an item (timesReviewed 0 -> 1) sets intervalDays to
\* 4 for easy and 1 for medium and hard, whatever the interval was before
C3_FirstReviewFixedPoints ==
    (JustReviewed /\ ItemOf(tasks, lastOp.id).timesReviewed = 1)
        => ItemOf(tasks, lastOp.id).intervalDays = FirstReviewInterval(lastOp.arg)

\* C4: for every currentInterval >= 1, every difficulty and every
\* timesReviewed >= 0 the function returns a value in 1 .. 180
C4_IntervalInRange ==
    Computed => (calcOut[1] >= 1 /\ calcOut[1] <= 180)

\* an evaluation in which the cap cut the doubled interval down to 180
C4_Witness ==
    /\ Computed
    /\ calcIn.currentInterval = 150 /\ calcIn.difficulty = "easy"
    /\ calcIn.timesReviewed = 2
    /\ calcOut = <<180>>

\* the integer nearest to c * f, a tie going up, written out per factor:
\* 2c; 3c/2 for even c and (3c+1)/2 for odd c; the k with |k - 4c/5| < 1/2
NearestScaled(c, difficulty) ==
    IF difficulty = "easy" THEN 2 * c
    ELSE IF difficulty = "medium"
         THEN (IF c % 2 = 0 THEN (3 * c) \div 2 ELSE (3 * c + 1) \div 2)
    ELSE CHOOSE k \in 0 .. c : 10 * k - 5 <= 8 * c /\ 8 * c < 10 * k + 5

\* C5: on a review after the first (count 2 or more) the function returns
\* min(180, max(1, round(c * f))), f = 2.0, 1.5, 0.8, round being half-up;
\* 10 hard gives 8, 4 easy gives 8, 150 easy gives 180
C5_SubsequentReviewFormula ==
    (Computed /\ calcIn.timesReviewed >= 2) =>
        /\ calcOut[1] =
             Min(180, Max(1, NearestScaled(calcIn.currentInterval, calcIn.difficulty)))
        /\ (calcIn.currentInterval = 10 /\ calcIn.difficulty = "hard") => calcOut[1] = 8
        /\ (calcIn.currentInterval = 4 /\ calcIn.difficulty = "easy") => calcOut[1] = 8
        /\ (calcIn.currentInterval = 150 /\ calcIn.difficulty = "easy")
                => calcOut[1] = 180

\* medium on an odd interval: 7 * 1.5 = 10.5 rounds up to 11
C5_Witness ==
    /\ Computed
    /\ calcIn.currentInterval = 7 /\ calcIn.difficulty = "medium"
    /\ calcIn.timesReviewed = 2
    /\ calcOut = <<11>>

(***************************************************************************)
(* Properties of the scheduler's operations.                               *)
(***************************************************************************)
\* a step of the named operation
StepOf(op) == lastOp'.op = op /\ ops' = ops + 1

Fields == {"id", "title", "content", "firstReviewDate", "lastReviewedDate",
           "nextReviewDate", "difficulty", "intervalDays", "timesReviewed",
           "createdAt"}

\* every item but the one with the given id is in both collections, the same
OthersUnchanged(before, after, taskId) ==
    /\ \A i \in 1 .. Len(before) :
            before[i].id # taskId =>
                \E j \in 1 .. Len(after) : after[j] = before[i]
    /\ \A j \in 1 .. Len(after) :
            after[j].id # taskId =>
                \E i \in 1 .. Len(before) : before[i] = after[j]

\* C6: from the empty collection, after any sequence of addItem, updateItem,
\* deleteItem and markReviewed the collection is non-decreasing by
\* nextReviewDate (the calendar day the string names)
C6_SortedByNextReviewDate ==
    \A i \in 1 .. Len(tasks) : \A j \in (i + 1) .. Len(tasks) :
        parseISO(tasks[i].nextReviewDate) <= parseISO(tasks[j].nextReviewDate)

\* a review moved the item added first behind the item added second, into
\* the next year
C6_Witness ==
    /\ JustReviewed
    /\ Len(tasks) = 2
    /\ tasks[2].id = lastOp.id
    /\ tasks[2].id < tasks[1].id
    /\ tasks[2].nextReviewDate[1] > tasks[1].nextReviewDate[1]

C9_UpdateItemContract ==
    [][StepOf("updateTask") =>
        /\ AbsentId(tasks, lastOp'.id) =>
              (toast' # "Review Item Updated" /\ tasks' = tasks)
        /\ ~AbsentId(tasks, lastOp'.id) =>
              /\ Len(tasks') = Len(tasks)
              /\ OthersUnchanged(tasks, tasks', lastOp'.id)
              /\ \E updates \in UpdateInputs :
                    ItemOf(tasks', lastOp'.id) =
                        Merge(ItemOf(tasks, lastOp'.id), updates)
      ]_vars

\* C10: deleteItem on an unknown or already deleted id does not fail and
\* leaves contents and order unchanged, so applying it twice is applying it
\* once; on a known id it removes exactly that item and keeps the order of
\* the rest
C10_IdempotentDelete ==
    [][StepOf("deleteTask") =>
        /\ toast' = "Review Item Deleted"
        /\ AbsentId(tasks, lastOp'.id) => tasks' = tasks
        /\ ~AbsentId(tasks, lastOp'.id) =>
              \E i \in 1 .. Len(tasks) :
                  /\ tasks[i].id = lastOp'.id
                  /\ tasks' = SubSeq(tasks, 1, i - 1) \o SubSeq(tasks, i + 1, Len(tasks))
        /\ AbsentId(tasks', lastOp'.id)
        /\ deleteTaskResult(tasks', lastOp'.id) = tasks'
      ]_vars

\* deleteItem was called on an id that had been handed out and deleted
\* before, with an item left in the collection
C10_Witness ==
    /\ lastOp.op = "deleteTask"
    /\ lastOp.id <= nextId
    /\ ~lastOp.found
    /\ AbsentId(tasks, lastOp.id)
    /\ Len(tasks) >= 1

(***************************************************************************)
(* Properties of the Task timer.                                           *)
(***************************************************************************)
\* C1: in every state reachable by create, start, pause, reset,
\* toggleCompletion, delete and addManualTime at most one Task has
\* timerState = running
C1_SingleTimer == Cardinality(Running(dailyTasks)) <= 1

\* a start was refused with two tasks in the store, one of them running
C1_Witness ==
    /\ lastOp.op = "start"
    /\ error = "ConflictError"
    /\ Len(dailyTasks) = 2
    /\ Cardinality(Running(dailyTasks)) = 1

\* C2: while task A is running, start(B) on another task B fails with
\* ConflictError and leaves every task as it was (A's timerState and
\* actualTimeSpent, B's timerState): A is not stopped
C2_StartConflict ==
    [][(/\ StepOf("start")
        /\ ~AbsentId(dailyTasks, lastOp'.id)
        /\ \E j \in Running(dailyTasks) : dailyTasks[j].id # lastOp'.id) =>
            /\ error' = "ConflictError"
            /\ dailyTasks' = dailyTasks
            /\ Running(dailyTasks') = Running(dailyTasks)
      ]_vars

\* start(B) was refused while A, with time on its timer, was running
C2_Witness ==
    /\ lastOp.op = "start"
    /\ error = "ConflictError"
    /\ \E a \in Running(dailyTasks) :
            /\ dailyTasks[a].id # lastOp.id
            /\ dailyTasks[a].actualTimeSpent > 0
    /\ ~AbsentId(dailyTasks, lastOp.id)
    /\ ItemOf(dailyTasks, lastOp.id).timerState = "idle"

\* the collection without the item of the given id, order kept
Without(arr, taskId) == SelectSeq(arr, LAMBDA t : t.id # taskId)

\* C11: addItem adds exactly one new item, with nextReviewDate =
\* firstReviewDate, intervalDays = 1 and timesReviewed = 0, at a position that
\* keeps the collection sorted by nextReviewDate, and leaves every item that
\* was there unchanged
C11_AddItemEffect ==
    [][StepOf("addTask") =>
        /\ AbsentId(tasks, lastOp'.id)
        /\ Len(tasks') = Len(tasks) + 1
        /\ Cardinality({j \in 1 .. Len(tasks') : tasks'[j].id = lastOp'.id}) = 1
        /\ LET new == ItemOf(tasks', lastOp'.id)
           IN  /\ new.nextReviewDate = new.firstReviewDate
               /\ new.firstReviewDate \in FirstReviewDates
               /\ new.intervalDays = 1
               /\ new.timesReviewed = 0
               /\ new.createdAt = clock
        /\ Without(tasks', lastOp'.id) = tasks
        /\ \A i \in 1 .. Len(tasks') : \A j \in (i + 1) .. Len(tasks') :
              parseISO(tasks'[i].nextReviewDate) <= parseISO(tasks'[j].nextReviewDate)
      ]_vars

\* the new item went in front of an item that was added before it
C11_Witness ==
    /\ lastOp.op = "addTask"
    /\ Len(tasks) = 2
    /\ tasks[1].id = lastOp.id
    /\ tasks[1].id > tasks[2].id
    /\ parseISO(tasks[1].nextReviewDate) < parseISO(tasks[2].nextReviewDate)


\* the positions of the items whose nextReviewDate is the given day
DueIndexes(arr, date) ==
    {i \in 1 .. Len(arr) : parseISO(arr[i].nextReviewDate) = date}

\* the k-th smallest member of a set of positions
KthOf(idx, k) == CHOOSE i \in idx : Cardinality({j \in idx : j < i}) = k - 1

\* C12: getTasksForDate(date) returns exactly the items whose nextReviewDate
\* is that date, neither earlier (overdue) nor later ones, in the order they
\* have in the stored collection, and leaves the collection as it was.
C12_ItemsDueOnExact ==
    [][StepOf("getTasksForDate") =>
        /\ tasks' = tasks
        /\ due'.date \in QueryDates
        /\ LET idx == DueIndexes(tasks, due'.date)
           IN  /\ Len(due'.items) = Cardinality(idx)
               /\ \A k \in 1 .. Len(due'.items) : due'.items[k] = tasks[KthOf(idx, k)]
      ]_vars

\* a query that returns two of three items, in stored order, and leaves out
\* an item due earlier than the date asked about
C12_Witness ==
    /\ lastOp.op = "getTasksForDate"
    /\ Len(tasks) = 3
    /\ Len(due.items) = 2
    /\ due.items[1].id # due.items[2].id
    /\ \E i \in 1 .. Len(tasks) : parseISO(tasks[i].nextReviewDate) < due.date


\* C13: in every reachable state, also after the current day has advanced
\* past a task's scheduledDate while its timer runs, a running Task is
\* neither completed nor failed.
C13_RunningNotCompletedNorFailed ==
    \A i \in 1 .. Len(dailyTasks) :
        dailyTasks[i].timerState = "running" =>
            /\ ~dailyTasks[i].completed
            /\ ~Failed(dailyTasks[i], clock)

\* the half of C13 that no day change touches: a completed task never runs
C13_CompletedNotRunning ==
    \A i \in 1 .. Len(dailyTasks) :
        dailyTasks[i].completed => dailyTasks[i].timerState # "running"


\* the whole number of minutes a text of digits with an optional sign
\* stands for, and the texts that are no number at all
WholeMinutes == [t \in {"-5", "0", "15"} |-> IF t = "-5" THEN -5 ELSE IF t = "0" THEN 0 ELSE 15]

NonNumericTexts == {""}

\* the task is there, not completed, not failed and its timer does not run
Eligible(arr, id, now) ==
    /\ HasId(arr, id)
    /\ ~ItemOf(arr, id).completed
    /\ ~Failed(ItemOf(arr, id), now)
    /\ ItemOf(arr, id).timerState # "running"

C14_WitnessRejected ==
    /\ lastOp.op = "saveManualTime"
    /\ lastOp.arg \in {"", "-5"}
    /\ toast = "Invalid Input"
    /\ ItemOf(dailyTasks, lastOp.id).actualTimeSpent > 0


TimerStateOf(arr, id) == ItemOf(arr, id).timerState

\* C15: adding manual time to a task whose timer runs fails with
\* InvalidStateError and changes no Task; on the same task once paused,
\* adding 15 minutes succeeds and adds 900 seconds.
C15_ManualTimeWhileRunning ==
    [][/\ (StepOf("addManualTime") /\ HasId(dailyTasks, lastOp'.id)
              /\ TimerStateOf(dailyTasks, lastOp'.id) = "running")
            => (error' # NoError /\ dailyTasks' = dailyTasks)
       /\ (StepOf("saveManualTime") /\ lastOp'.arg = "15"
              /\ TimerStateOf(dailyTasks, lastOp'.id) = "running")
            => (error' = "InvalidStateError" /\ dailyTasks' = dailyTasks)
       /\ (StepOf("saveManualTime") /\ lastOp'.arg = "15"
              /\ TimerStateOf(dailyTasks, lastOp'.id) = "paused")
            => /\ error' = NoError
               /\ ItemOf(dailyTasks', lastOp'.id).actualTimeSpent =
                     ItemOf(dailyTasks, lastOp'.id).actualTimeSpent + 900
               /\ TimerStateOf(dailyTasks', lastOp'.id) = "paused"
      ]_vars

\* 15 minutes were refused on a running task that had accrued a second
C15_Witness ==
    /\ lastOp.op = "saveManualTime"
    /\ lastOp.arg = "15"
    /\ error = "InvalidStateError"
    /\ TimerStateOf(dailyTasks, lastOp.id) = "running"
    /\ ItemOf(dailyTasks, lastOp.id).actualTimeSpent = 1

\* 15 minutes were added to a paused task
C15_WitnessAfterPause ==
    /\ lastOp.op = "saveManualTime"
    /\ lastOp.arg = "15"
    /\ error = NoError
    /\ TimerStateOf(dailyTasks, lastOp.id) = "paused"
    /\ ItemOf(dailyTasks, lastOp.id).actualTimeSpent = 900


\* C16: reset of a task whose timer runs fails with InvalidStateError and
\* changes nothing; reset of an idle or paused task sets its actualTimeSpent
\* to 0 and its timerState to idle and leaves every other task, and every
\* other field of the task, as it was.
C16_ResetContract ==
    [][(StepOf("reset") /\ HasId(dailyTasks, lastOp'.id)) =>
        IF TimerStateOf(dailyTasks, lastOp'.id) = "running"
        THEN /\ error' = "InvalidStateError"
             /\ dailyTasks' = dailyTasks
        ELSE /\ error' = NoError
             /\ Len(dailyTasks') = Len(dailyTasks)
             /\ \A j \in 1 .. Len(dailyTasks) :
                   IF dailyTasks[j].id = lastOp'.id
                   THEN /\ dailyTasks'[j].actualTimeSpent = 0
                        /\ dailyTasks'[j].timerState = "idle"
                        /\ \A f \in DOMAIN dailyTasks[j] \ {"actualTimeSpent", "timerState"} :
                              dailyTasks'[j][f] = dailyTasks[j][f]
                   ELSE dailyTasks'[j] = dailyTasks[j]
      ]_vars

\* a task was reset while another one runs and keeps the second it accrued
C16_Witness ==
    /\ lastOp.op = "reset"
    /\ error = NoError
    /\ HasId(dailyTasks, lastOp.id)
    /\ \E j \in 1 .. Len(dailyTasks) :
          /\ dailyTasks[j].id # lastOp.id
          /\ dailyTasks[j].timerState = "running"
          /\ dailyTasks[j].actualTimeSpent = 1

\* reset was refused on a running task that keeps the second it accrued
C16_WitnessRunning ==
    /\ lastOp.op = "reset"
    /\ error = "InvalidStateError"
    /\ TimerStateOf(dailyTasks, lastOp.id) = "running"
    /\ ItemOf(dailyTasks, lastOp.id).actualTimeSpent = 1


\* C17: every read path reports failed = true exactly when scheduledDate
\* exists, is strictly before the current day and completed is false, as of
\* the current date and not as the persisted snapshot has it; here the
\* failed counts of the profile analytics right after the page has loaded.
C17_FailedDerivedOnRead ==
    lastOp.op = "profileLoad" =>
        /\ failedTasks(profileDailyTasks) =
              Cardinality({i \in 1 .. Len(profileDailyTasks) :
                              Failed(profileDailyTasks[i], clock)})
        /\ \A date \in (clock - 6) .. clock :
              failedOn(profileDailyTasks, date) =
                 Cardinality({i \in 1 .. Len(profileDailyTasks) :
                                 /\ Failed(profileDailyTasks[i], clock)
                                 /\ parseISO(profileDailyTasks[i].scheduledDate) = date})

\* the part of C17 that holds: a completed task never counts as failed
C17_CompletedNeverFailed ==
    \A i \in 1 .. Len(profileDailyTasks) :
        profileDailyTasks[i].completed => ~profileDailyTasks[i].failed


\* stored values that are no valid serialized sequence of review items
CorruptKinds == {"unparseable", "nonArray"}

\* C18: for every stored value that is no valid serialized ReviewItem
\* sequence (unparseable text, or JSON that is no array), start-up completes,
\* the in-memory collection is empty, and every later operation works as on
\* an empty collection (none throws).
C18_HydrationToleratesCorrupt ==
    /\ (lastOp.op = "hydrate" /\ lastOp.arg \in CorruptKinds)
          => (isInitialized /\ tasksShape = "array" /\ tasks = <<>>)
    /\ thrown = NoError

\* the part of C18 that holds: text that does not parse is discarded, the
\* collection starts empty and the stored value is replaced by the empty one
C18_UnparseableDiscarded ==
    (lastOp.op = "hydrate" /\ lastOp.arg \in {"unparseable", "absent", "empty"})
        => /\ isInitialized /\ tasksShape = "array" /\ tasks = <<>>
           /\ stored = JSONstringify("array", <<>>)


Mutations == {"addTask", "updateTask", "deleteTask", "markAsReviewed"}

\* the collection a start-up would read back from a stored value
ReadBack(text) == JSONparse(text).items

\* C19: once hydration has completed, each addItem, updateItem, deleteItem
\* and markReviewed is followed by a save of the whole collection, so the
\* stored snapshot reads back as the in-memory collection; a restart keeps
\* the snapshot, and the hydration after it restores the same collection in
\* the same order.
C19_PersistOnEveryMutation ==
    [][/\ ((\E op \in Mutations : StepOf(op)) /\ isInitialized /\ tasksShape = "array")
            => /\ stored'.kind = "array"
               /\ ReadBack(stored') = tasks'
       /\ (StepOf("restart") /\ tasksShape = "array")
            => /\ stored' = stored
               /\ ReadBack(stored') = tasks
       /\ (StepOf("hydrate") /\ stored.kind = "array")
            => /\ tasks' = ReadBack(stored)
               /\ ReadBack(stored') = tasks'
               /\ isInitialized'
      ]_vars

\* a hydration after a restart has restored two items, the reviewed one
\* behind the other
C19_Witness ==
    /\ lastOp.op = "hydrate"
    /\ Len(tasks) = 2
    /\ tasks[2].timesReviewed = 1
    /\ tasks[2].lastReviewedDate # NoDate
    /\ tasks[1].lastReviewedDate = NoDate
    /\ tasks[1].id > tasks[2].id

\* the last item was deleted and the empty collection was saved
C19_WitnessEmptied ==
    /\ lastOp.op = "deleteTask"
    /\ lastOp.found
    /\ tasks = <<>>
    /\ stored = JSONstringify("array", <<>>)


\* C20: in every state reachable by addItem, updateItem with any partial
\* fields, deleteItem and markReviewed, every item has intervalDays >= 1 and
\* timesReviewed >= 0.
C20_ItemFieldRanges ==
    \A i \in 1 .. Len(tasks) :
        /\ tasks[i].intervalDays >= 1
        /\ tasks[i].timesReviewed >= 0

\* the part of C20 that holds: what markAsReviewed writes is in range
C20_ReviewedInRange ==
    JustReviewed => ItemOf(tasks, lastOp.id).intervalDays >= 1


\* the whole number an estimatedTime text stands for, for the texts that
\* stand for one
WholeNumberTexts == [t \in {"0", "1", "30", "1440", "1441"} |->
    CASE t = "0" -> 0 [] t = "1" -> 1 [] t = "30" -> 30
      [] t = "1440" -> 1440 [] t = "1441" -> 1441]

\* what the data model allows: 3 to 200 characters, whole minutes 1..1440
WithinBounds(values) ==
    /\ values.description >= 3 /\ values.description <= 200
    /\ values.estimatedTime \in DOMAIN WholeNumberTexts
    /\ WholeNumberTexts[values.estimatedTime] >= 1
    /\ WholeNumberTexts[values.estimatedTime] <= 1440

\* C21: a submission is accepted only when the description has 3 to 200
\* characters and estimatedTime is a whole number of minutes in 1..1440; for
\* every other input it is rejected with a validation error and onSubmit is
\* not called.
C21_CreationValidated ==
    [][StepOf("submit") =>
        /\ lastOp'.found <=> WithinBounds(formValues)
        /\ lastOp'.found <=> formErrors' = {}
        /\ ~lastOp'.found => submitted' = submitted
      ]_vars

\* the part of C21 that holds: length and range are enforced, and a rejected
\* submission reports an error and does not reach onSubmit
C21_RangeEnforced ==
    [][StepOf("submit") =>
        /\ lastOp'.found =>
              /\ formValues.description >= 3 /\ formValues.description <= 200
              /\ submitted'.estimatedTime.num >= submitted'.estimatedTime.den
              /\ submitted'.estimatedTime.num <= 1440 * submitted'.estimatedTime.den
        /\ WithinBounds(formValues) => lastOp'.found
        /\ ~lastOp'.found => (formErrors' # {} /\ submitted' = submitted)
      ]_vars

\* a submission with 1.5 minutes reached onSubmit
C21_FractionAccepted ==
    /\ lastOp.op = "submit"
    /\ lastOp.found
    /\ submitted.estimatedTime.num % submitted.estimatedTime.den # 0


\* C22: right after a successful markAsReviewed on day d the item's
\* nextReviewDate is later than d and later than its lastReviewedDate, by 1
\* to 180 days, so getTasksForDate(d) does not return it: an item is never
\* due again on the day it was reviewed.
C22_NotDueOnReviewDay ==
    [][(StepOf("markAsReviewed") /\ ~AbsentId(tasks, lastOp'.id)) =>
        LET new == ItemOf(tasks', lastOp'.id)
            gap == parseISO(new.nextReviewDate) - parseISO(new.lastReviewedDate)
        IN  /\ parseISO(new.nextReviewDate) > clock
            /\ parseISO(new.lastReviewedDate) = clock
            /\ gap >= 1 /\ gap <= 180
            /\ AbsentId(getTasksForDate(tasks', clock), lastOp'.id)
      ]_vars

\* an item was rated hard on a day after the first: its interval is 1 and
\* it is due the next day, while another item is due on the review day
C22_Witness ==
    /\ JustReviewed
    /\ lastOp.arg = "hard"
    /\ clock > StartDay
    /\ parseISO(ItemOf(tasks, lastOp.id).nextReviewDate) = clock + 1
    /\ Len(getTasksForDate(tasks, clock)) = 1


\* every record of the first sequence is in the second
AllKept(old, new) ==
    \A i \in 1 .. Len(old) : \E j \in 1 .. Len(new) : new[j] = old[i]

\* C23: during start-up the persist effect never writes the initial empty
\* collection over a stored snapshot: a write happens only after the
\* hydration effect has read the snapshot and the initialized flag is set,
\* and it keeps every item of the snapshot, in every order of the two
\* effects and of addTask calls made before initialization.
C23_NoSaveBeforeHydration ==
    [][stored' # stored =>
        \/ /\ lastOp'.op = "hydrationEffect"
           /\ stored.kind = "unparseable"
           /\ stored' = Absent
        \/ /\ lastOp'.op = "persistEffect"
           /\ isInitialized
           /\ "hydrate" \notin effectsToRun
           /\ stored.kind = "array" =>
                 (stored'.kind = "array" /\ AllKept(stored.items, stored'.items))
      ]_vars

\* the first write after start-up: the stored item and one added before the
\* initializing render
C23_Witness ==
    /\ lastOp.op = "persistEffect"
    /\ lastOp.found
    /\ nextId = 2
    /\ Len(tasks) = 2
    /\ stored = JSONstringify("array", tasks)

\* an addTask call made before the hydration effect ran is overwritten by
\* the stored snapshot
C23_EarlyAddLost ==
    /\ lastOp.op = "render"
    /\ isInitialized
    /\ nextId = 2
    /\ Len(tasks) = 1
    /\ tasks[1].id = 1


\* C24: on a subsequent review, for every current interval c in 1..180,
\* hard gives at most c, medium at least c and easy at least what medium
\* gives; hard gives strictly less than c exactly when c >= 3 (1 and 2 are
\* fixed points of hard).
C24_DifficultyOrdering ==
    (Computed /\ calcIn.timesReviewed >= 2 /\ calcIn.currentInterval <= MaxInterval) =>
        LET c == calcIn.currentInterval
            t == calcIn.timesReviewed
            hard == calculateNextInterval(c, "hard", t)
            medium == calculateNextInterval(c, "medium", t)
            easy == calculateNextInterval(c, "easy", t)
        IN  /\ hard <= c /\ c <= medium /\ medium <= easy
            /\ hard < c <=> c >= 3
            /\ calcIn.difficulty = "hard" => (calcOut[1] = hard /\ calcOut[1] <= c)
            /\ calcIn.difficulty = "medium" => (calcOut[1] = medium /\ calcOut[1] >= c)
            /\ calcIn.difficulty = "easy" => (calcOut[1] = easy /\ calcOut[1] >= c)

\* the smallest interval hard shortens: 3 becomes 2
C24_Witness ==
    /\ calcIn.currentInterval = 3 /\ calcIn.difficulty = "hard"
    /\ calcIn.timesReviewed = 2
    /\ calcOut = <<2>>


\* a review of the item changes it, whatever the rating
ReviewChanges(taskId) ==
    \A difficulty \in Difficulties :
        ItemOf(markAsReviewedResult(tasks, taskId, difficulty, todayStr), taskId).timesReviewed
            = ItemOf(tasks, taskId).timesReviewed + 1

Saturated(taskId) == ItemOf(tasks, taskId).intervalDays = MaxInterval

\* C25: markAsReviewed stays applicable to every item after any number of
\* reviews, and for an item that is only rated easy intervalDays never
\* decreases, reaches 180 after finitely many reviews and stays at 180 on
\* every further easy review.
C25_ReviewSaturates ==
    /\ [](\A i \in 1 .. Len(tasks) : ReviewChanges(tasks[i].id))
    /\ [][StepOf("markAsReviewed") =>
            LET old == ItemOf(tasks, lastOp'.id)
                new == ItemOf(tasks', lastOp'.id)
            IN  /\ new.timesReviewed = old.timesReviewed + 1
                /\ new.intervalDays >= old.intervalDays
                /\ new.intervalDays <= MaxInterval
                /\ old.intervalDays = MaxInterval => new.intervalDays = MaxInterval
         ]_vars
    /\ \A taskId \in ReviewedIds : <>[]Saturated(taskId)

\* an item at 180 days was reviewed once more and is still at 180
C25_Witness ==
    /\ lastOp.op = "markAsReviewed"
    /\ Saturated(lastOp.id)
    /\ ItemOf(tasks, lastOp.id).timesReviewed = 9
    /\ parseISO(ItemOf(tasks, lastOp.id).nextReviewDate) = clock + MaxInterval

====
